---- MODULE Spec2Model ----
(***************************************************************************)
(* Model of ppgen/core.py: generate_complex_password and                   *)
(* generate_passphrase over a word dictionary produced by load_word_list.  *)
(*                                                                         *)
(* Strings are sequences of characters.  A character is written as a       *)
(* one-element TLA+ string; a hanzi is written by its name ("jia", "yi",   *)
(* ...) and counts as ONE character.  Latin letters, digits and symbols    *)
(* are written as themselves.                                              *)
(***************************************************************************)
EXTENDS Integers, Sequences, FiniteSets, TLC

\* ---------------------------------------------------------------- bounds
MaxMinLength == 5       \* min_length ranges over 0..MaxMinLength
MaxWordCount == 4       \* an explicit word_count ranges over -1..MaxWordCount
MaxDraws == 5           \* cap on the iterations of generate_passphrase's while loop
MaxComplexDraws == 3    \* cap on the iterations of generate_complex_password's while loop
MaxPick == 2            \* random.choice over a separator set draws among its first MaxPick characters

\* ------------------------------------------------------ program constants
special_chars == <<"!", "@", "#", "*", "~">>
numbers == <<"0", "1", "2", "3", "4", "5", "6", "7", "8", "9">>
DefaultWordCount == 4
NoValidWordsHint ==
    <<"mei", "you", "zhao", "dao", "fu", "he", "zi", "shu", "yao", "qiu", "de", "ci">>

\* Optional value: None is <<>>, the integer n is <<n>>.
None == <<>>
Some(n) == <<n>>

\* ------------------------------------------------------------ word lists
\* Entries as load_word_list builds them from lines "word<TAB>pinyin-with-tones".
\* "yibing<TAB>12" has two tone digits and no letters: its pinyin is empty.
Jia == <<"jia">>
YiBing == <<"yi", "bing">>
DingWu == <<"ding", "wu">>
JiGeng == <<"ji", "geng">>
XinRen == <<"xin", "ren">>

Universe == {Jia, YiBing, DingWu, JiGeng, XinRen}

Entry(word) ==
    CASE word = Jia -> [pinyin |-> <<"a">>, char_count |-> 1]
      [] word = YiBing -> [pinyin |-> <<>>, char_count |-> 2]
      [] word = DingWu -> [pinyin |-> <<"b">>, char_count |-> 2]
      [] word = JiGeng -> [pinyin |-> <<"e">>, char_count |-> 2]
      [] word = XinRen -> [pinyin |-> <<"d", "i">>, char_count |-> 2]

load_word_list(lines) == {[w \in S |-> Entry(w)] : S \in SUBSET lines}

\* the word files tried with each generator
PassphraseFiles == Universe
ComplexFiles == {Jia, YiBing, XinRen}

\* ---------------------------------------------------------------- helpers
RECURSIVE SumLen(_)
SumLen(ps) == IF ps = <<>> THEN 0 ELSE Len(Head(ps)) + SumLen(Tail(ps))

RECURSIVE Join(_, _)
Join(sep, ss) ==
    IF ss = <<>> THEN <<>>
    ELSE IF Len(ss) = 1 THEN Head(ss)
    ELSE Head(ss) \o sep \o Join(sep, Tail(ss))

Max(a, b) == IF a >= b THEN a ELSE b
Min(a, b) == IF a <= b THEN a ELSE b

\* str.upper on one character
Upper(c) ==
    CASE c = "a" -> "A" [] c = "b" -> "B" [] c = "c" -> "C" [] c = "d" -> "D"
      [] c = "e" -> "E" [] c = "i" -> "I" [] c = "o" -> "O"
      [] OTHER -> c

\* variant: the whole reading upper-cased (pinyin.upper())
capitalize_pinyin_all(pinyin) == [i \in 1..Len(pinyin) |-> Upper(pinyin[i])]

capitalize_pinyin(pinyin) ==
    IF pinyin /= <<>> THEN <<Upper(Head(pinyin))>> \o Tail(pinyin) ELSE pinyin

Reading(wd, word, cap) ==
    IF cap THEN capitalize_pinyin(wd[word].pinyin) ELSE wd[word].pinyin

\* random.choice(seq): an element, or IndexError on an empty sequence.
random_choice(population) ==
    IF population = {} THEN {[exc |-> "IndexError", val |-> <<>>]}
    ELSE {[exc |-> "", val |-> x] : x \in population}

\* variant: a sample larger than the population is cut to the population
random_sample_truncating(population, k) ==
    LET n == IF k > Cardinality(population) THEN Cardinality(population) ELSE k IN
    {[exc |-> "", val |-> s] :
        s \in {t \in [1..n -> population] : \A i, j \in 1..n : t[i] = t[j] => i = j}}

\* random.sample(population, k): k distinct elements in some order, or ValueError.
random_sample(population, k) ==
    IF k < 0 \/ k > Cardinality(population)
    THEN {[exc |-> "ValueError", val |-> <<>>]}
    ELSE {[exc |-> "", val |-> s] :
            s \in {t \in [1..k -> population] : \A i, j \in 1..k : t[i] = t[j] => i = j}}

\* One filler character: random.random() < 0.5 picks the symbol set, else the digits.
SeparatorPicker ==
    {special_chars[i] : i \in 1..Min(MaxPick, Len(special_chars))}
        \cup {numbers[i] : i \in 1..Min(MaxPick, Len(numbers))}

\* ------------------------------------------------------------------ state
VARIABLES word_dict, fn, min_length, word_count, wc_given, character_count,
          capitalize, pc, pinyins, chinese_chars, separators, final_chars, ret

vars == <<word_dict, fn, min_length, word_count, wc_given, character_count,
          capitalize, pc, pinyins, chinese_chars, separators, final_chars, ret>>

params == <<word_dict, fn, min_length, word_count, wc_given, character_count, capitalize>>

NoRet == [status |-> "none", exc |-> "", secret |-> <<>>, hint |-> <<>>]
Returned(secret, hint) == [status |-> "returned", exc |-> "", secret |-> secret, hint |-> hint]
Raised(exc) == [status |-> "raised", exc |-> exc, secret |-> <<>>, hint |-> <<>>]

Loaded(lines) ==
    /\ word_dict \in load_word_list(lines)
    /\ fn = "none"
    /\ min_length = 0
    /\ word_count = None
    /\ wc_given = FALSE
    /\ character_count = 2
    /\ capitalize = FALSE
    /\ pc = "idle"
    /\ pinyins = <<>>
    /\ chinese_chars = <<>>
    /\ separators = <<>>
    /\ final_chars = <<>>
    /\ ret = NoRet

InitComplex == Loaded(ComplexFiles)
InitPassphrase == Loaded(PassphraseFiles)
Init == InitComplex \/ InitPassphrase

\* ------------------------------------------------ generate_complex_password
CallComplex ==
    /\ pc = "idle"
    /\ \E ml \in 0..MaxMinLength, cap \in BOOLEAN :
        /\ min_length' = ml
        /\ capitalize' = cap
    /\ fn' = "complex"
    /\ pc' = "c_loop"
    /\ UNCHANGED <<word_dict, word_count, wc_given, character_count, pinyins,
                   chinese_chars, separators, final_chars, ret>>

\* variant: four characters reserved instead of three
ComplexNeedMoreReserve4(ps, ml) == SumLen(ps) < ml - 4

\* while sum(len(p) for p in pinyins) < min_length - 3
ComplexNeedMore(ps, ml) == SumLen(ps) < ml - 3

ComplexDraw ==
    /\ pc = "c_loop"
    /\ ComplexNeedMore(pinyins, min_length)
    /\ Len(pinyins) < MaxComplexDraws
    /\ \E c \in random_choice(DOMAIN word_dict) :
        IF c.exc /= ""
        THEN /\ ret' = Raised(c.exc)
             /\ pc' = "done"
             /\ UNCHANGED <<pinyins, chinese_chars>>
        ELSE /\ pinyins' = Append(pinyins, Reading(word_dict, c.val, capitalize))
             /\ chinese_chars' = Append(chinese_chars, c.val)
             /\ UNCHANGED <<pc, ret>>
    /\ UNCHANGED <<params, separators, final_chars>>

\* password after the interleaving loop and the two trailing characters
RECURSIVE ComplexPassword(_, _, _, _)
ComplexPassword(ps, seps, fin, i) ==
    IF i > Len(ps) THEN fin
    ELSE ps[i] \o (IF i - 1 < Len(ps) - 1 THEN <<seps[i]>> ELSE <<>>)
              \o ComplexPassword(ps, seps, fin, i + 1)

\* variant: the separator after the last but one word is left out of the hint
RECURSIVE ComplexHintsOffByOne(_, _, _, _, _)
ComplexHintsOffByOne(cs, ps, seps, fin, i) ==
    IF i > Min(Len(cs), Len(ps)) THEN fin
    ELSE cs[i] \o <<"(">> \o ps[i] \o <<")">>
              \o (IF i - 1 < Len(seps) - 1 THEN <<seps[i]>> ELSE <<>>)
              \o ComplexHintsOffByOne(cs, ps, seps, fin, i + 1)

\* hints: "char(pinyin)" then separators[i] while i < len(separators); then final_chars
RECURSIVE ComplexHints(_, _, _, _, _)
ComplexHints(cs, ps, seps, fin, i) ==
    IF i > Min(Len(cs), Len(ps)) THEN fin
    ELSE cs[i] \o <<"(">> \o ps[i] \o <<")">>
              \o (IF i - 1 < Len(seps) THEN <<seps[i]>> ELSE <<>>)
              \o ComplexHints(cs, ps, seps, fin, i + 1)

ComplexAssemble ==
    /\ pc = "c_loop"
    /\ ~ComplexNeedMore(pinyins, min_length)
    /\ \E seps \in [1..Max(Len(pinyins) - 1, 0) -> SeparatorPicker],
          fin \in [1..2 -> SeparatorPicker] :
        /\ separators' = seps
        /\ final_chars' = fin
        /\ ret' = Returned(ComplexPassword(pinyins, seps, fin, 1),
                           ComplexHints(chinese_chars, pinyins, seps, fin, 1))
    /\ pc' = "done"
    /\ UNCHANGED <<params, pinyins, chinese_chars>>

\* ------------------------------------------------------ generate_passphrase
\* variant: words of at least the requested char_count
ValidWordsAtLeast(wd, cc) == {w \in DOMAIN wd : wd[w].char_count >= cc}

\* [word for word in word_dict.keys() if word_dict[word]["char_count"] == character_count]
ValidWords(wd, cc) == {w \in DOMAIN wd : wd[w].char_count = cc}

\* variant: no floor of three
ActualCountNoFloor(wc) == wc

\* actual_count = max(3, word_count)
ActualCount(wc) == Max(3, wc)

PassphraseHints(cs, ps) ==
    [i \in 1..Min(Len(cs), Len(ps)) |-> cs[i] \o <<"(">> \o ps[i] \o <<")">>]

PassphraseResult(cs, ps) == Returned(Join(<<"-">>, ps), Join(<<"-">>, PassphraseHints(cs, ps)))

CallPassphrase ==
    /\ pc = "idle"
    /\ \E ml \in 0..MaxMinLength, cc \in 1..2, cap \in BOOLEAN,
          given \in BOOLEAN, wc \in {None} \cup {Some(n) : n \in -1..MaxWordCount} :
        /\ min_length' = ml
        /\ character_count' = cc
        /\ capitalize' = cap
        /\ wc_given' = given
        /\ word_count' = IF given THEN wc ELSE Some(DefaultWordCount)
        /\ pc' = IF word_count' /= None THEN "p_fixed" ELSE "p_loop"
    /\ fn' = "passphrase"
    /\ UNCHANGED <<word_dict, pinyins, chinese_chars, separators, final_chars, ret>>

PassphraseFixed ==
    /\ pc = "p_fixed"
    /\ LET valid_words == ValidWords(word_dict, character_count) IN
        IF valid_words = {}
        THEN /\ ret' = Returned(<<>>, NoValidWordsHint)
             /\ UNCHANGED <<pinyins, chinese_chars>>
        ELSE \E s \in random_sample(valid_words, ActualCount(word_count[1])) :
            IF s.exc /= ""
            THEN /\ ret' = Raised(s.exc)
                 /\ UNCHANGED <<pinyins, chinese_chars>>
            ELSE /\ chinese_chars' = chinese_chars \o s.val
                 /\ pinyins' = pinyins \o
                        [i \in 1..Len(s.val) |-> Reading(word_dict, s.val[i], capitalize)]
                 /\ ret' = PassphraseResult(chinese_chars', pinyins')
    /\ pc' = "done"
    /\ UNCHANGED <<params, separators, final_chars>>

\* variant: "and" for "or"
PassphraseNeedMoreBoth(ps, ml) == Len(ps) < 3 /\ SumLen(ps) < ml

\* while len(pinyins) < 3 or sum(len(p) for p in pinyins) < min_length
PassphraseNeedMore(ps, ml) == Len(ps) < 3 \/ SumLen(ps) < ml

PassphraseDraw ==
    /\ pc = "p_loop"
    /\ PassphraseNeedMore(pinyins, min_length)
    /\ Len(pinyins) < MaxDraws
    /\ LET valid_words == ValidWords(word_dict, character_count) IN
        IF valid_words = {}
        THEN /\ ret' = Returned(<<>>, NoValidWordsHint)
             /\ pc' = "done"
             /\ UNCHANGED <<pinyins, chinese_chars>>
        ELSE \E s \in random_sample(valid_words, 1) :
             /\ chinese_chars' = chinese_chars \o s.val
             /\ pinyins' = pinyins \o
                    [i \in 1..Len(s.val) |-> Reading(word_dict, s.val[i], capitalize)]
             /\ UNCHANGED <<pc, ret>>
    /\ UNCHANGED <<params, separators, final_chars>>

PassphraseJoin ==
    /\ pc = "p_loop"
    /\ ~PassphraseNeedMore(pinyins, min_length)
    /\ ret' = PassphraseResult(chinese_chars, pinyins)
    /\ pc' = "done"
    /\ UNCHANGED <<params, pinyins, chinese_chars, separators, final_chars>>

\* ---------------------------------------------------------- specification
NextComplex ==
    \/ CallComplex
    \/ ComplexDraw
    \/ ComplexAssemble

NextPassphrase ==
    \/ CallPassphrase
    \/ PassphraseFixed
    \/ PassphraseDraw
    \/ PassphraseJoin

Next == NextComplex \/ NextPassphrase

\* calls of generate_complex_password
SpecComplex == InitComplex /\ [][NextComplex]_vars

\* calls of generate_passphrase
SpecPassphrase == InitPassphrase /\ [][NextPassphrase]_vars

\* calls of either generator
Spec == Init /\ [][Next]_vars


\* ------------------------------------------------- reading results back
FillerChars == {special_chars[i] : i \in 1..Len(special_chars)}
                   \cup {numbers[i] : i \in 1..Len(numbers)}

\* str.split(sep) for a one-character sep
RECURSIVE SplitFrom(_, _, _)
SplitFrom(s, sep, cur) ==
    IF s = <<>> THEN <<cur>>
    ELSE IF Head(s) = sep THEN <<cur>> \o SplitFrom(Tail(s), sep, <<>>)
    ELSE SplitFrom(Tail(s), sep, Append(cur, Head(s)))

Split(s, sep) == SplitFrom(s, sep, <<>>)

\* the contents of the parentheses of a hint, in order
RECURSIVE HintReadings(_, _, _)
HintReadings(h, inside, cur) ==
    IF h = <<>> THEN <<>>
    ELSE IF inside
         THEN IF Head(h) = ")" THEN <<cur>> \o HintReadings(Tail(h), FALSE, <<>>)
              ELSE HintReadings(Tail(h), TRUE, Append(cur, Head(h)))
         ELSE IF Head(h) = "(" THEN HintReadings(Tail(h), TRUE, <<>>)
              ELSE HintReadings(Tail(h), FALSE, <<>>)

\* the words of a hint: the maximal runs of non-filler characters before each "("
RECURSIVE HintWords(_, _, _)
HintWords(h, inside, cur) ==
    IF h = <<>> THEN <<>>
    ELSE IF inside
         THEN HintWords(Tail(h), Head(h) /= ")", <<>>)
         ELSE IF Head(h) = "(" THEN <<cur>> \o HintWords(Tail(h), TRUE, <<>>)
              ELSE IF Head(h) \in FillerChars \cup {"-"} THEN HintWords(Tail(h), FALSE, <<>>)
              ELSE HintWords(Tail(h), FALSE, Append(cur, Head(h)))

\* the filler characters of a hint outside its parentheses, in order
RECURSIVE HintSeparators(_, _)
HintSeparators(h, inside) ==
    IF h = <<>> THEN <<>>
    ELSE IF inside THEN HintSeparators(Tail(h), Head(h) /= ")")
         ELSE IF Head(h) = "(" THEN HintSeparators(Tail(h), TRUE)
              ELSE (IF Head(h) \in FillerChars THEN <<Head(h)>> ELSE <<>>)
                       \o HintSeparators(Tail(h), FALSE)

\* the reading the dictionary gives a word, first character upper-cased on request
IsReadingOf(r, word) ==
    LET p == word_dict[word].pinyin IN
    /\ Len(r) = Len(p)
    /\ \A j \in 2..Len(p) : r[j] = p[j]
    /\ Len(p) >= 1 => r[1] = (IF capitalize THEN Upper(p[1]) ELSE p[1])

Eligible == {w \in DOMAIN word_dict : word_dict[w].char_count = character_count}
FloorCount == IF word_count[1] > 3 THEN word_count[1] ELSE 3
Done(f) == fn = f /\ pc = "done"

\* ------------------------------------------------------------------ claims

C2_EmptyCatalogFails ==
    (Done("complex") /\ DOMAIN word_dict = {}) => ret.status = "raised"

\* C3: the complex hint is the secret with each reading r_i replaced by
\* word_i(r_i): the readings in the hint's parentheses are the readings of the
\* secret in order, the hint's separators are the secret's separators at the
\* same places, and both end with the same two characters.
C3_HintMirrorsSecret ==
    (Done("complex") /\ ret.status = "returned")
        => LET R == HintReadings(ret.hint, FALSE, <<>>)
               W == HintWords(ret.hint, FALSE, <<>>)
               S == HintSeparators(ret.hint, FALSE)
               k == Len(R)
               start(i) == SumLen(SubSeq(R, 1, i - 1)) + i
               ls == Len(ret.secret)
               lh == Len(ret.hint)
           IN /\ W = chinese_chars
              /\ \A i \in 1..k : IsReadingOf(R[i], W[i])
              /\ Len(S) = Max(k - 1, 0) + 2
              /\ ls = SumLen(R) + Len(S)
              /\ \A i \in 1..k : SubSeq(ret.secret, start(i), start(i) + Len(R[i]) - 1) = R[i]
              /\ \A i \in 1..(k - 1) : ret.secret[start(i) + Len(R[i])] = S[i]
              /\ <<ret.hint[lh - 1], ret.hint[lh]>> = <<ret.secret[ls - 1], ret.secret[ls]>>
              /\ <<ret.hint[lh - 1], ret.hint[lh]>> = SubSeq(S, Len(S) - 1, Len(S))

C3_Witness ==
    /\ Done("complex") /\ ret.status = "returned" /\ capitalize
    /\ Len(chinese_chars) = 3
    /\ separators[1] /= separators[2]
    /\ final_chars[1] /= final_chars[2]

\* C4: fixed-count mode with at least n = max(3, word_count) eligible words
\* returns exactly n words, pairwise distinct, all of the requested char_count.
C4_FixedCount ==
    (Done("passphrase") /\ word_count /= None /\ Cardinality(Eligible) >= FloorCount)
        => LET T == Split(ret.secret, "-")
               W == HintWords(ret.hint, FALSE, <<>>)
           IN /\ ret.status = "returned"
              /\ Len(T) = FloorCount
              /\ Len(W) = FloorCount
              /\ \A i, j \in 1..Len(W) : W[i] = W[j] => i = j
              /\ \A i \in 1..Len(W) : W[i] \in Eligible

C4_Witness ==
    /\ Done("passphrase") /\ wc_given /\ word_count = Some(2)
    /\ Cardinality(Eligible) = 4
    /\ Len(Split(ret.secret, "-")) = 3

\* C5: fixed-count mode with at least one but fewer than n eligible words
\* fails with an error: no secret is returned, short or with a repeated word.
C5_TooFewWordsFails ==
    (Done("passphrase") /\ word_count /= None
        /\ Cardinality(Eligible) >= 1 /\ Cardinality(Eligible) < FloorCount)
        => /\ ret.status = "raised"
           /\ ret.exc = "ValueError"
           /\ ret.secret = <<>>

C5_Witness ==
    /\ Done("passphrase") /\ wc_given /\ word_count = Some(4)
    /\ Cardinality(Eligible) = 3
    /\ ret.status = "raised"

\* C6: with no word of the requested char_count, both passphrase modes return
\* an empty secret and a non-empty hint, raise nothing, and in minimum-length
\* mode do so at the first draw with nothing accumulated.
C6_NoEligibleWords ==
    (Done("passphrase") /\ \A w \in DOMAIN word_dict : word_dict[w].char_count /= character_count)
        => /\ ret.status = "returned"
           /\ ret.secret = <<>>
           /\ ret.hint /= <<>>
           /\ pinyins = <<>> /\ chinese_chars = <<>>

C6_Witness ==
    /\ Done("passphrase") /\ word_count = None /\ min_length > 0
    /\ DOMAIN word_dict /= {} /\ Eligible = {}
    /\ ret.secret = <<>>

\* C7: minimum-length mode with an eligible word returns at least 3 words whose
\* reading lengths sum to at least min_length, every word eligible; a word may
\* repeat.
C7_MinLength ==
    (Done("passphrase") /\ word_count = None /\ Eligible /= {})
        => LET T == Split(ret.secret, "-")
               W == HintWords(ret.hint, FALSE, <<>>)
           IN /\ ret.status = "returned"
              /\ Len(T) >= 3
              /\ SumLen(T) >= min_length
              /\ Len(W) = Len(T)
              /\ \A i \in 1..Len(W) : W[i] \in Eligible

C7_Witness ==
    /\ Done("passphrase") /\ word_count = None /\ ret.status = "returned"
    /\ Len(chinese_chars) = 4
    /\ chinese_chars[1] = chinese_chars[3]

\* C8: a call that omits word_count runs minimum-length mode, so the readings
\* of its result sum to at least min_length.
C8_OmittedRunsMinLength ==
    (Done("passphrase") /\ ~wc_given /\ ret.status = "returned" /\ ret.secret /= <<>>)
        => SumLen(Split(ret.secret, "-")) >= min_length

\* C9: a successful passphrase is its readings joined by "-", its hint the
\* word(reading) forms joined by "-" in the same order, each reading being the
\* dictionary reading of its word with the first character upper-cased exactly
\* when capitalize is set.
C9_JoinedByHyphen ==
    (Done("passphrase") /\ ret.status = "returned" /\ ret.secret /= <<>>)
        => LET T == Split(ret.secret, "-")
               H == Split(ret.hint, "-")
           IN /\ Len(T) = Len(chinese_chars)
              /\ Len(H) = Len(T)
              /\ \A i \in 1..Len(T) :
                    /\ IsReadingOf(T[i], chinese_chars[i])
                    /\ H[i] = chinese_chars[i] \o <<"(">> \o T[i] \o <<")">>

C9_Witness ==
    /\ Done("passphrase") /\ ret.status = "returned" /\ capitalize
    /\ wc_given /\ word_count = Some(3)
    /\ DOMAIN word_dict = {DingWu, JiGeng, XinRen}
    /\ chinese_chars = <<JiGeng, XinRen, DingWu>>
    /\ ret.secret = <<"E", "-", "D", "i", "-", "B">>

\* C10: the loops exit after at most max(0, min_length - 3) draws (complex
\* password) and at most max(3, min_length) draws (minimum-length passphrase).
C10_DrawsBounded ==
    /\ fn = "complex" => Len(pinyins) <= Max(0, min_length - 3)
    /\ (fn = "passphrase" /\ word_count = None) => Len(pinyins) <= Max(3, min_length)
====
